---- MODULE Spec2Model ----
(***************************************************************************)
(* A model of api.Session (src/api/session.go): the session state, the     *)
(* Call primitive that builds and signs a request envelope, Init, MoveTo,  *)
(* IsExpired and the operation catalog built on Call.  Every operation is  *)
(* synchronous, so each one is a single action; what the transport, the    *)
(* credential provider, the clock and the random source answer is drawn    *)
(* from small sets.                                                        *)
(***************************************************************************)
EXTENDS Integers, Sequences, FiniteSets, TLC

VARIABLES
    location,       \* Session.location
    url,            \* Session.url ("" means: use defaultURL)
    hasTicket,      \* Session.hasTicket
    ticket,         \* Session.ticket (Nil is the nil pointer)
    started,        \* Session.started, in ns
    hash,           \* Session.hash (0 is the all-zero 32 bytes of NewSession)
    providerToken,  \* the access token held by Session.provider (0: none yet)
    now,            \* the wall clock, in ns (time.Now())
    out             \* what the last operation sent, received and returned

vars == <<location, url, hasTicket, ticket, started, hash, providerToken, now, out>>

----------------------------------------------------------------------------
(* Bounds of the model. *)

MaxTime == 2
MaxTicket == 2
MaxHash == 2
MaxToken == 1

----------------------------------------------------------------------------
(* Values. *)

\* A nil pointer is the empty sequence and a pointer to x is <<x>>; a nil error
\* is NoError.
Nil == <<>>
Ptr(x) == <<x>>
Val(p) == p[1]
NoError == "nil"

defaultURL == "https://pgorelease.nianticlabs.com/plfe/rpc"

downloadSettingsHash == "05daf51635c82611d1aac95c0b051d3ec088a930"

\* time.Time values, as nanoseconds: the clock moves in steps of half a millisecond.
Millisecond == 1000000
TickNs == Millisecond \div 2
Times == {k * TickNs : k \in 0..MaxTime}

\* An AuthTicket of the backend: opaque bytes and an expiry in ms.
AuthTicket(i) == [Start |-> i, ExpireTimestampMs |-> i - 1]

Tickets == {Ptr(AuthTicket(i)) : i \in 1..MaxTicket}

\* Two places a player can be at.
Place(c) == [Lat |-> c, Lon |-> c + 10, Alt |-> c + 20, Accuracy |-> c + 30]
Locations == {Place(0), Place(1)}

Hashes == 1..MaxHash

Tokens == 1..MaxToken

\* The values of ResponseEnvelope.ApiUrl a backend sends.
ApiUrls == {"", "a.example"}

\* The errors of the package and of its collaborators.
ErrFormatting == "ErrFormatting"
ErrNoURL == "ErrNoURL"
ErrProxyDead == "ErrProxyDead"
ErrRequest == "ErrRequest"
ErrEmptyResponse == "Empty response"
ErrResponse(e) == "ErrResponse: " \o e
ErrMarshal == "proto: Marshal failed"
ErrUnmarshal == "proto: Unmarshal failed"
ErrLogin == "auth: login failed"
ErrCanceled == "context canceled"
ErrTransport == "rpc: request failed"

\* What rpc.Request can fail with.
TransportErrors == {ErrProxyDead, ErrCanceled, ErrTransport}

\* The steps of Call at which proto.Marshal can fail.
MarshalSteps == {"none", "ticket", "request", "signature", "message"}

----------------------------------------------------------------------------
(* Pure helpers. *)

\* uint64(t.UnixNano() / int64(time.Millisecond))
getTimestamp(t) == t \div Millisecond

\* s.url = fmt.Sprintf("https://%s/rpc", urlToken)
setURL(s, urlToken) == [s EXCEPT !.url = "https://" \o urlToken \o "/rpc"]

\* setTicket taking the session to be authenticated only by a ticket that is there.
setTicketWhenPresent(s, t) == [s EXCEPT !.hasTicket = (t # Nil), !.ticket = t]

setTicket(s, t) == [s EXCEPT !.hasTicket = TRUE, !.ticket = t]

getURL(u) == IF u # "" THEN u ELSE defaultURL

\* proto.Marshal: a tagged encoding of the message.
Marshal(m) == <<"pb", m>>

\* strings.Contains over texts held as sequences of characters.
Contains(s, sub) ==
    \E i \in 1..(Len(s) + 1) :
        /\ i + Len(sub) - 1 <= Len(s)
        /\ SubSeq(s, i, i + Len(sub) - 1) = sub

\* "new RPC url"
RotationMarker == <<"n", "e", "w", " ", "R", "P", "C", " ", "u", "r", "l">>

Request(type, msg) == [RequestType |-> type, RequestMessage |-> msg]

\* Location.GetCellIDs: the cells around the location.
GetCellIDs(loc) == <<"cells", loc.Lat, loc.Lon>>

\* The Signer (newcrypto.PogoSignature, newcrypto.Encrypt).
HashRequest(t, r) == <<"HashRequest", t, r>>
HashLocation1(t, lat, lon, alt) == <<"HashLocation1", t, lat, lon, alt>>
HashLocation2(lat, lon, alt) == <<"HashLocation2", lat, lon, alt>>
Hash25 == "Hash25"
Encrypt(bytes, ts) == <<"Encrypt", bytes, ts>>

\* auth.Provider.GetProviderString
GetProviderString == "provider"

\* The classification of a response envelope's status code.
StatusCodes == {"success", "recoverable", "fatal"}

GetErrorFromStatus(code) ==
    CASE code = "success" -> NoError
      [] code = "recoverable" -> "ErrStatusRecoverable"
      [] OTHER -> "ErrStatusFatal"

----------------------------------------------------------------------------
(* The session as one value, so that Call can run on a session that an     *)
(* operation has already changed.                                          *)

Sess ==
    [location |-> location, url |-> url, hasTicket |-> hasTicket, ticket |-> ticket,
     started |-> started, hash |-> hash, token |-> providerToken, now |-> now]

IsExpired(s) ==
    IF ~s.hasTicket \/ s.ticket = Nil
    THEN TRUE
    ELSE Val(s.ticket).ExpireTimestampMs < getTimestamp(s.now)

----------------------------------------------------------------------------
(* Responses of the backend.  A sub-response is a blob of bytes: wf says   *)
(* whether it parses to its end, f1 and f2 are what its fields 1 and 2     *)
(* hold (a parser fills them in before it meets the malformed part).       *)

Blob(wf, f1, f2) == [wf |-> wf, f1 |-> f1, f2 |-> f2]

PlainUrl == <<"c", "a", "p", "t", "c", "h", "a">>
RotationUrl == <<"s", "e", "e", " ">> \o RotationMarker \o <<"!">>

Filler == Blob(TRUE, FALSE, <<>>)

\* The sub-responses at the index 0: of an operation with one sub-request, and
\* of Announce, which reads the challenge there.
Blobs == {Filler, Blob(TRUE, TRUE, PlainUrl), Blob(FALSE, FALSE, <<>>)}

ChallengeBlobs ==
    {Filler, Blob(TRUE, TRUE, PlainUrl), Blob(TRUE, TRUE, RotationUrl),
     Blob(FALSE, TRUE, RotationUrl)}

\* The sub-responses at the index 5, where Announce reads the map objects.
BlobsAt5 == {Filler, Blob(FALSE, FALSE, <<>>)}

\* The sub-responses at the index 6, the answer to Announce's CHECK_CHALLENGE.
BlobsAt6 == {Filler, Blob(TRUE, TRUE, PlainUrl)}

\* proto.Unmarshal(bytes, &msg): the error, and the message as far as it was filled.
Unmarshal(b, type) ==
    [err |-> IF b.wf THEN NoError ELSE ErrUnmarshal,
     msg |-> [Type |-> type, Field1 |-> b.f1, Field2 |-> b.f2]]

ShowChallenge(msg) == msg.Field1
ChallengeUrl(msg) == msg.Field2

\* Returns of length k: the blobs at the indices 0, 5 and 6 vary, the others
\* do not.
MkReturns(k, b0, b5, b6) ==
    [i \in 1..k |-> IF i = 1 THEN b0 ELSE IF i = 6 THEN b5 ELSE IF i = 7 THEN b6 ELSE Filler]

\* The response envelopes of a backend: the number of sub-responses is in lens,
\* those at the indices 0, 5 and 6 are drawn from B0, B5 and B6.
Responses(lens, B0, B5, B6) ==
    {[Returns |-> MkReturns(k, b0, b5, b6), StatusCode |-> st, AuthTicket |-> tk,
      ApiUrl |-> au] :
        k \in lens, b0 \in B0, b5 \in B5, b6 \in B6, st \in StatusCodes,
        tk \in Tickets \cup {Nil}, au \in ApiUrls}

\* What the world answers a Call with: proto.Marshal fails at a step of the
\* signing (mfail), or the transport ends with a response envelope or an error.
Answer(mfail, resp, err) == [mfail |-> mfail, resp |-> resp, err |-> err]

\* The answers to a call of session s with n sub-requests: Call marshals only
\* when the session has a ticket, and a sub-request only when there is one.
\* An operation that reads Returns is answered with every length up to n, one
\* that does not with none and with n sub-responses.
Answers(s, n, lens, B0, B5, B6) ==
    {Answer("none", Ptr(r), NoError) : r \in Responses(lens, B0, B5, B6)}
        \cup {Answer("none", Nil, e) : e \in TransportErrors}
        \cup {Answer(m, Nil, NoError) :
                 m \in {x \in MarshalSteps \ {"none"} :
                           s.hasTicket /\ (x = "request" => n > 0)}}

----------------------------------------------------------------------------
(* Session.Call *)

\* Envelope with the auth-info attached whether or not the session has a ticket.
EnvelopeAlwaysAuthInfo(s, requests) ==
    [RequestId |-> "8145806132888207460",
     StatusCode |-> 2,
     MsSinceLastLocationfix |-> 989,
     Longitude |-> s.location.Lon,
     Latitude |-> s.location.Lat,
     Accuracy |-> s.location.Accuracy,
     Requests |-> requests,
     AuthTicket |-> IF s.hasTicket THEN s.ticket ELSE Nil,
     AuthInfo |-> Ptr([Provider |-> GetProviderString,
                       Token |-> [Contents |-> s.token, Unknown2 |-> 59]]),
     PlatformRequests |-> <<>>]

\* Lines 110-134: the envelope before it is signed.
Envelope(s, requests) ==
    [RequestId |-> "8145806132888207460",
     StatusCode |-> 2,
     MsSinceLastLocationfix |-> 989,
     Longitude |-> s.location.Lon,
     Latitude |-> s.location.Lat,
     Accuracy |-> s.location.Accuracy,
     Requests |-> requests,
     AuthTicket |-> IF s.hasTicket THEN s.ticket ELSE Nil,
     AuthInfo |-> IF s.hasTicket
                  THEN Nil
                  ELSE Ptr([Provider |-> GetProviderString,
                            Token |-> [Contents |-> s.token, Unknown2 |-> 59]]),
     PlatformRequests |-> <<>>]

\* Signature with the request hashes in the reverse order of the sub-requests.
SignatureHashesReversed(s, requests) ==
    LET t == getTimestamp(s.now)
        tk == Marshal(s.ticket)
        n == Len(requests)
    IN  [RequestHash |-> [i \in 1..n |-> HashRequest(tk, Marshal(requests[n + 1 - i]))],
         LocationHash1 |-> HashLocation1(tk, s.location.Lat, s.location.Lon, s.location.Alt),
         LocationHash2 |-> HashLocation2(s.location.Lat, s.location.Lon, s.location.Alt),
         ActivityStatus |-> [Stationary |-> TRUE],
         DeviceInfo |-> "iPhone",
         SessionHash |-> s.hash,
         Timestamp |-> t,
         TimestampSinceStart |-> t - getTimestamp(s.started),
         Unknown25 |-> Hash25]

\* Lines 137-178: the signature of an authenticated call.
Signature(s, requests) ==
    LET t == getTimestamp(s.now)
        tk == Marshal(s.ticket)
    IN  [RequestHash |-> [i \in 1..Len(requests) |-> HashRequest(tk, Marshal(requests[i]))],
         LocationHash1 |-> HashLocation1(tk, s.location.Lat, s.location.Lon, s.location.Alt),
         LocationHash2 |-> HashLocation2(s.location.Lat, s.location.Lon, s.location.Alt),
         ActivityStatus |-> [Stationary |-> TRUE],
         DeviceInfo |-> "iPhone",
         SessionHash |-> s.hash,
         Timestamp |-> t,
         TimestampSinceStart |-> t - getTimestamp(s.started),
         Unknown25 |-> Hash25]

\* Lines 180-199: the platform request that carries the encrypted signature.
PlatformRequests(sig) ==
    <<[Type |-> "SEND_ENCRYPTED_SIGNATURE",
       RequestMessage |->
           Marshal([EncryptedSignature |-> Encrypt(Marshal(sig), sig.TimestampSinceStart)])]>>

\* What Call returns (resp, err), with what it handed to the transport: the
\* envelope, its signature and the URL (env is Nil when nothing was sent), and
\* the error the transport ended with (terr); mfail is the step at which
\* proto.Marshal failed ("none": at no step).
CallResult(resp, err, env, sig, u, terr, mfail) ==
    [resp |-> resp, err |-> err, env |-> env, sig |-> sig, url |-> u, terr |-> terr,
     mfail |-> mfail]

NoCall == CallResult(Nil, NoError, Nil, Nil, "", NoError, "none")

\* Lines 206-210: the exchange; the transport's error is returned as it is.
Dispatch(s, env, sig, a) ==
    CallResult(a.resp, a.err, Ptr(env), sig, getURL(s.url), a.err, "none")

\* a is the world's answer to the call.
Call(s, requests, a) ==
    IF s.hasTicket
    THEN IF a.mfail = "ticket" \/ (a.mfail = "request" /\ requests # <<>>)
         THEN CallResult(Nil, ErrMarshal, Nil, Nil, "", NoError, a.mfail)
         ELSE IF a.mfail \in {"signature", "message"}
         THEN CallResult(Nil, ErrFormatting, Nil, Nil, "", NoError, a.mfail)
         ELSE LET sig == Signature(s, requests)
              IN  Dispatch(s, [Envelope(s, requests) EXCEPT
                                  !.PlatformRequests = PlatformRequests(sig)], Ptr(sig), a)
    ELSE Dispatch(s, Envelope(s, requests), Nil, a)

----------------------------------------------------------------------------
(* What an operation leaves: the session after it, the error and the value *)
(* it returns (panic: it ended in a run-time panic and returned nothing),  *)
(* the Call it made and the payloads it pushed to the feed.                *)

Result(s, err, ret, c, pushed) ==
    [s |-> s, err |-> err, ret |-> ret, panic |-> FALSE, c |-> c, pushed |-> pushed]

Panic(s, c, pushed) ==
    [s |-> s, err |-> NoError, ret |-> Nil, panic |-> TRUE, c |-> c, pushed |-> pushed]

----------------------------------------------------------------------------
(* Session.Init *)

InitRequests ==
    <<Request("GET_PLAYER", Nil),
      Request("GET_HATCHED_EGGS", Nil),
      Request("GET_INVENTORY", Nil),
      Request("CHECK_AWARDED_BADGES", Nil),
      Request("DOWNLOAD_SETTINGS", Marshal([Hash |-> downloadSettingsHash]))>>

\* InitResponse storing the ticket before it looks at the API URL.
InitResponseTicketFirst(s, c) ==
    IF Val(c.resp).ApiUrl = ""
    THEN Result(setTicket(s, Val(c.resp).AuthTicket), ErrNoURL, Nil, c, <<>>)
    ELSE Result(setTicket(setURL(s, Val(c.resp).ApiUrl), Val(c.resp).AuthTicket),
                NoError, Nil, c, <<>>)

\* Lines 248-258: what Init does with the bootstrap response.
InitResponse(s, c) ==
    IF Val(c.resp).ApiUrl = ""
    THEN Result(s, ErrNoURL, Nil, c, <<>>)
    ELSE Result(setTicket(setURL(s, Val(c.resp).ApiUrl), Val(c.resp).AuthTicket),
                NoError, Nil, c, <<>>)

\* loginOK, tok: whether provider.Login succeeds and the token the provider then
\* holds; randOK, h: whether rand.Read succeeds and what s.hash holds after it.
SessionInit(s, loginOK, tok, randOK, h, a) ==
    IF ~loginOK
    THEN Result(s, ErrLogin, Nil, NoCall, <<>>)
    ELSE LET s1 == [s EXCEPT !.token = tok, !.hash = h]
         IN  IF ~randOK
             THEN Result(s1, ErrFormatting, Nil, NoCall, <<>>)
             ELSE LET c == Call(s1, InitRequests, a)
                  IN  IF c.err # NoError
                      THEN Result(s1, c.err, Nil, c, <<>>)
                      ELSE InitResponse(s1, c)

----------------------------------------------------------------------------
(* Session.Announce *)

AnnounceRequests(s) ==
    <<Request("GET_PLAYER", Nil),
      Request("GET_HATCHED_EGGS", Nil),
      Request("GET_INVENTORY", Marshal([LastTimestampMs |-> (s.now \div (1000 * Millisecond)) * 1000])),
      Request("CHECK_AWARDED_BADGES", Nil),
      Request("DOWNLOAD_SETTINGS", Marshal([Hash |-> downloadSettingsHash])),
      Request("GET_MAP_OBJECTS",
              Marshal([CellId |-> GetCellIDs(s.location),
                       Longitude |-> s.location.Lon, Latitude |-> s.location.Lat])),
      Request("CHECK_CHALLENGE", Nil)>>

\* AnnounceChallenge rotating the URL on every shown challenge, marker or not.
AnnounceChallengeAlwaysRotates(s, c, mapObjects) ==
    LET challenge == Unmarshal(Val(c.resp).Returns[1], "CheckChallengeResponse").msg
    IN  IF ShowChallenge(challenge)
        THEN Result(setURL(s, Val(c.resp).ApiUrl), NoError, Ptr(mapObjects), c,
                    <<mapObjects>>)
        ELSE Result(s, GetErrorFromStatus(Val(c.resp).StatusCode), Ptr(mapObjects), c,
                    <<mapObjects>>)

\* Lines 320-329: the challenge check, after the map objects were decoded and pushed.
AnnounceChallenge(s, c, mapObjects) ==
    LET challenge == Unmarshal(Val(c.resp).Returns[1], "CheckChallengeResponse").msg
    IN  IF ShowChallenge(challenge)
        THEN IF Contains(ChallengeUrl(challenge), RotationMarker)
             THEN Result(setURL(s, Val(c.resp).ApiUrl), NoError, Ptr(mapObjects), c,
                         <<mapObjects>>)
             ELSE Result(s, NoError, Ptr(mapObjects), c, <<mapObjects>>)
        ELSE Result(s, GetErrorFromStatus(Val(c.resp).StatusCode), Ptr(mapObjects), c,
                    <<mapObjects>>)

\* Announce returning ErrRequest for every failure of the call.
AnnounceAlwaysErrRequest(s, a) ==
    LET c == Call(s, AnnounceRequests(s), a)
    IN  IF c.err # NoError
        THEN Result(s, ErrRequest, Nil, c, <<>>)
        ELSE IF Len(Val(c.resp).Returns) < 5
        THEN Result(s, ErrEmptyResponse, Nil, c, <<>>)
        ELSE IF Len(Val(c.resp).Returns) < 6
        THEN Panic(s, c, <<>>)
        ELSE LET d == Unmarshal(Val(c.resp).Returns[6], "GetMapObjectsResponse")
             IN  IF d.err # NoError
                 THEN Result(s, ErrResponse(d.err), Nil, c, <<>>)
                 ELSE AnnounceChallenge(s, c, d.msg)

\* Lines 301-318: the call and the decoding of the map objects.
Announce(s, a) ==
    LET c == Call(s, AnnounceRequests(s), a)
    IN  IF c.err # NoError
        THEN Result(s, IF c.err = ErrProxyDead THEN ErrProxyDead ELSE ErrRequest, Nil, c, <<>>)
        ELSE IF Len(Val(c.resp).Returns) < 5
        THEN Result(s, ErrEmptyResponse, Nil, c, <<>>)
        ELSE IF Len(Val(c.resp).Returns) < 6
        THEN Panic(s, c, <<>>)
        ELSE LET d == Unmarshal(Val(c.resp).Returns[6], "GetMapObjectsResponse")
             IN  IF d.err # NoError
                 THEN Result(s, ErrResponse(d.err), Nil, c, <<>>)
                 ELSE AnnounceChallenge(s, c, d.msg)

----------------------------------------------------------------------------
(* The operations with one sub-request. *)

CheckChallenge(s, a) ==
    LET c == Call(s, <<Request("CHECK_CHALLENGE", Nil)>>, a)
    IN  IF c.err # NoError
        THEN Result(s, c.err, Nil, c, <<>>)
        ELSE IF Len(Val(c.resp).Returns) < 1
        THEN Result(s, ErrEmptyResponse, Nil, c, <<>>)
        ELSE LET d == Unmarshal(Val(c.resp).Returns[1], "CheckChallengeResponse")
             IN  IF d.err # NoError
                 THEN Result(s, ErrResponse(d.err), Nil, c, <<>>)
                 ELSE Result(s, GetErrorFromStatus(Val(c.resp).StatusCode), Ptr(d.msg), c,
                                  <<d.msg>>)

\* argOK: whether proto.Marshal of the VerifyChallengeMessage succeeds.
SolveCaptcha(s, solution, argOK, a) ==
    IF ~argOK
    THEN Result(s, ErrFormatting, Nil, NoCall, <<>>)
    ELSE LET c == Call(s, <<Request("VERIFY_CHALLENGE", Marshal([Token |-> solution]))>>,
                       a)
         IN  IF c.err # NoError
             THEN Result(s, c.err, Nil, c, <<>>)
             ELSE IF Len(Val(c.resp).Returns) < 1
             THEN Result(s, ErrEmptyResponse, Nil, c, <<>>)
             ELSE LET d == Unmarshal(Val(c.resp).Returns[1], "VerifyChallengeResponse")
                  IN  IF d.err # NoError
                      THEN Result(s, ErrResponse(d.err), Nil, c, <<>>)
                      ELSE Result(s, GetErrorFromStatus(Val(c.resp).StatusCode), Ptr(d.msg), c,
                                  <<d.msg>>)

\* Returns[0] is read without a check of the length: an empty Returns panics.
GetPlayer(s, a) ==
    LET c == Call(s, <<Request("GET_PLAYER", Nil)>>, a)
    IN  IF c.err # NoError
        THEN Result(s, c.err, Nil, c, <<>>)
        ELSE IF Len(Val(c.resp).Returns) < 1
        THEN Panic(s, c, <<>>)
        ELSE LET d == Unmarshal(Val(c.resp).Returns[1], "GetPlayerResponse")
             IN  IF d.err # NoError
                 THEN Result(s, ErrResponse(d.err), Nil, c, <<>>)
                 ELSE Result(s, GetErrorFromStatus(Val(c.resp).StatusCode), Ptr(d.msg), c,
                                  <<d.msg>>)

\* argOK: whether proto.Marshal of the EncounterMessage succeeds.
Encounter(s, encounterID, spawnID, loc, argOK, a) ==
    IF ~argOK
    THEN Result(s, ErrFormatting, Nil, NoCall, <<>>)
    ELSE LET msg == [EncounterId |-> encounterID, SpawnPointId |-> spawnID,
                     PlayerLatitude |-> loc.Lat, PlayerLongitude |-> loc.Lon]
             c == Call(s, <<Request("ENCOUNTER", Marshal(msg))>>, a)
         IN  IF c.err # NoError
             THEN Result(s, c.err, Nil, c, <<>>)
             ELSE IF Len(Val(c.resp).Returns) < 1
             THEN Result(s, ErrEmptyResponse, Nil, c, <<>>)
             ELSE LET d == Unmarshal(Val(c.resp).Returns[1], "EncounterResponse")
                  IN  IF d.err # NoError
                      THEN Result(s, ErrResponse(d.err), Nil, c, <<>>)
                      ELSE Result(s, GetErrorFromStatus(Val(c.resp).StatusCode), Ptr(d.msg), c,
                                  <<d.msg>>)

\* GetInventory returning no error once the payload is decoded.
GetInventoryDropsStatus(s, a) ==
    LET c == Call(s, <<Request("GET_INVENTORY", Nil)>>, a)
    IN  IF c.err # NoError
        THEN Result(s, c.err, Nil, c, <<>>)
        ELSE IF Len(Val(c.resp).Returns) < 1
        THEN Panic(s, c, <<>>)
        ELSE LET d == Unmarshal(Val(c.resp).Returns[1], "GetInventoryResponse")
             IN  IF d.err # NoError
                 THEN Result(s, ErrResponse(d.err), Nil, c, <<>>)
                 ELSE Result(s, NoError, Ptr(d.msg), c, <<d.msg>>)

GetInventory(s, a) ==
    LET c == Call(s, <<Request("GET_INVENTORY", Nil)>>, a)
    IN  IF c.err # NoError
        THEN Result(s, c.err, Nil, c, <<>>)
        ELSE IF Len(Val(c.resp).Returns) < 1
        THEN Panic(s, c, <<>>)
        ELSE LET d == Unmarshal(Val(c.resp).Returns[1], "GetInventoryResponse")
             IN  IF d.err # NoError
                 THEN Result(s, ErrResponse(d.err), Nil, c, <<>>)
                 ELSE Result(s, GetErrorFromStatus(Val(c.resp).StatusCode), Ptr(d.msg), c,
                                  <<d.msg>>)

\* Call used directly: it returns the response envelope and changes nothing.
CallOnly(s, requests, a) ==
    LET c == Call(s, requests, a)
    IN  Result(s, c.err, c.resp, c, <<>>)

\* MoveTo taking over the latitude alone.
MoveToLatitudeOnly(s, loc) == [s EXCEPT !.location.Lat = loc.Lat]

MoveTo(s, loc) == [s EXCEPT !.location = loc]

----------------------------------------------------------------------------
(* The state machine.  The operations are synchronous and a session is used *)
(* by one caller at a time: an operation starts when the session is idle,   *)
(* runs to its end in one step and leaves what it did in out; Return is the *)
(* caller taking the result, after which the next operation can start.      *)

\* The sub-requests a caller hands to Call directly.
CallerRequests ==
    {<<>>,
     <<Request("GET_PLAYER", Nil)>>,
     <<Request("GET_PLAYER", Nil), Request("GET_INVENTORY", Nil), Request("CHECK_CHALLENGE", Nil)>>}

NewLocation == Place(0)

\* What the last operation did: op names it and arg is its argument; err, ret
\* and panic are what it returned; env, sig and sentTo are the envelope it handed
\* to the transport, its signature and the URL (Nil, "" when no exchange took
\* place); resp is the response envelope received (Nil when there was none) and
\* terr the error of the transport; mfail is the step of Call at which
\* proto.Marshal failed; pushed are the payloads pushed to the feed.
Out(op, arg, r) ==
    [op |-> op, arg |-> arg, err |-> r.err, ret |-> r.ret, panic |-> r.panic,
     env |-> r.c.env, sig |-> r.c.sig, sentTo |-> r.c.url, resp |-> r.c.resp,
     terr |-> r.c.terr, mfail |-> r.c.mfail, pushed |-> r.pushed]

NoResult(s) == Result(s, NoError, Nil, NoCall, <<>>)

Idle == Out("idle", Nil, NoResult(Sess))

\* NewSession
Init ==
    /\ location = NewLocation
    /\ url = ""
    /\ hasTicket = FALSE
    /\ ticket = Nil
    /\ started = 0
    /\ hash = 0
    /\ providerToken = 0
    /\ now = 0
    /\ out = Idle

\* The session after an operation that ended with r.
Finish(op, arg, r) ==
    /\ location' = r.s.location
    /\ url' = r.s.url
    /\ hasTicket' = r.s.hasTicket
    /\ ticket' = r.s.ticket
    /\ started' = r.s.started
    /\ hash' = r.s.hash
    /\ providerToken' = r.s.token
    /\ now' = r.s.now
    /\ out' = Out(op, arg, r)

Return ==
    /\ out.op # "idle"
    /\ out' = Idle
    /\ UNCHANGED <<location, url, hasTicket, ticket, started, hash, providerToken, now>>

Tick ==
    /\ out.op = "idle"
    /\ now + TickNs \in Times
    /\ now' = now + TickNs
    /\ UNCHANGED <<location, url, hasTicket, ticket, started, hash, providerToken, out>>

IsExpiredStep ==
    /\ out.op = "idle"
    /\ Finish("IsExpired", Nil, Result(Sess, NoError, Ptr(IsExpired(Sess)), NoCall, <<>>))

MoveToStep ==
    /\ out.op = "idle"
    /\ \E loc \in Locations : Finish("MoveTo", Ptr(loc), NoResult(MoveTo(Sess, loc)))

\* Login fails; or it succeeds and rand.Read fails; or both succeed and the
\* bootstrap call is made.
InitStep ==
    /\ out.op = "idle"
    /\ \/ Finish("Init", Nil, SessionInit(Sess, FALSE, providerToken, FALSE, hash,
                                          Answer("none", Nil, NoError)))
       \/ \E tok \in Tokens, h \in Hashes \cup {hash} :
             Finish("Init", Nil, SessionInit(Sess, TRUE, tok, FALSE, h,
                                             Answer("none", Nil, NoError)))
       \/ \E tok \in Tokens, h \in Hashes :
             \E a \in Answers(Sess, Len(InitRequests), {0, Len(InitRequests)}, {Filler}, {Filler}, {Filler}) :
                 Finish("Init", Nil, SessionInit(Sess, TRUE, tok, TRUE, h, a))

CallStep ==
    /\ out.op = "idle"
    /\ \E requests \in CallerRequests :
           \E a \in Answers(Sess, Len(requests), {0, Len(requests)}, {Filler}, {Filler}, {Filler}) :
               Finish("Call", Ptr(requests), CallOnly(Sess, requests, a))

AnnounceStep ==
    /\ out.op = "idle"
    /\ \E a \in Answers(Sess, Len(AnnounceRequests(Sess)), 0..Len(AnnounceRequests(Sess)),
                         ChallengeBlobs, BlobsAt5, BlobsAt6) :
           Finish("Announce", Nil, Announce(Sess, a))

CheckChallengeStep ==
    /\ out.op = "idle"
    /\ \E a \in Answers(Sess, 1, 0..1, Blobs, {Filler}, {Filler}) :
           Finish("CheckChallenge", Nil, CheckChallenge(Sess, a))

\* The operations whose argument is marshalled before the call: the marshalling
\* fails (no call is made), or it succeeds.
SolveCaptchaStep ==
    /\ out.op = "idle"
    /\ \/ Finish("SolveCaptcha", Nil,
                 SolveCaptcha(Sess, "solution", FALSE, Answer("none", Nil, NoError)))
       \/ \E a \in Answers(Sess, 1, 0..1, Blobs, {Filler}, {Filler}) :
             Finish("SolveCaptcha", Nil, SolveCaptcha(Sess, "solution", TRUE, a))

GetPlayerStep ==
    /\ out.op = "idle"
    /\ \E a \in Answers(Sess, 1, 0..1, Blobs, {Filler}, {Filler}) :
           Finish("GetPlayer", Nil, GetPlayer(Sess, a))

EncounterStep ==
    /\ out.op = "idle"
    /\ \E loc \in Locations :
           \/ Finish("Encounter", Ptr(loc),
                     Encounter(Sess, 1, "spawn", loc, FALSE, Answer("none", Nil, NoError)))
           \/ \E a \in Answers(Sess, 1, 0..1, Blobs, {Filler}, {Filler}) :
                 Finish("Encounter", Ptr(loc), Encounter(Sess, 1, "spawn", loc, TRUE, a))

GetInventoryStep ==
    /\ out.op = "idle"
    /\ \E a \in Answers(Sess, 1, 0..1, Blobs, {Filler}, {Filler}) :
           Finish("GetInventory", Nil, GetInventory(Sess, a))

Next ==
    \/ Return
    \/ Tick
    \/ IsExpiredStep
    \/ MoveToStep
    \/ InitStep
    \/ CallStep
    \/ AnnounceStep
    \/ CheckChallengeStep
    \/ SolveCaptchaStep
    \/ GetPlayerStep
    \/ EncounterStep
    \/ GetInventoryStep

Spec == Init /\ [][Next]_vars

----------------------------------------------------------------------------
(* The claims. *)

\* The operations that make a Call.
CallOps ==
    {"Init", "Call", "Announce", "CheckChallenge", "SolveCaptcha", "GetPlayer",
     "Encounter", "GetInventory"}

\* C1: IsExpired returns true when the session has no ticket, true when the
\* ticket's expiry (ms) is less than or equal to the current time (ms), the
\* case expiry = now included, and false otherwise.
C1_IsExpiredAtOrAfterExpiry ==
    out.op = "IsExpired" =>
        (Val(out.ret) <=>
            (\/ ~hasTicket
             \/ ticket = Nil
             \/ Val(ticket).ExpireTimestampMs <= getTimestamp(now)))

\* C2: the envelope handed to the transport carries, when the session has a
\* ticket at the time of the call, that ticket, exactly one platform request,
\* of the type SEND_ENCRYPTED_SIGNATURE, and no auth-info; and when it has none,
\* auth-info with the provider's id and access token, no ticket and no
\* platform request.
C2_EnvelopeAuth ==
    [][out'.env # Nil =>
          LET e == Val(out'.env)
          IN  IF hasTicket
              THEN /\ e.AuthTicket = ticket
                   /\ Len(e.PlatformRequests) = 1
                   /\ e.PlatformRequests[1].Type = "SEND_ENCRYPTED_SIGNATURE"
                   /\ e.AuthInfo = Nil
              ELSE /\ e.AuthInfo # Nil
                   /\ Val(e.AuthInfo).Provider = GetProviderString
                   /\ Val(e.AuthInfo).Token.Contents = providerToken'
                   /\ e.AuthTicket = Nil
                   /\ e.PlatformRequests = <<>>]_vars

\* An authenticated call and what it sent.
C2_Witness ==
    /\ out.op = "GetPlayer"
    /\ out.env # Nil
    /\ hasTicket
    /\ ticket # Nil
    /\ Val(out.env).AuthTicket = ticket
    /\ Len(Val(out.env).PlatformRequests) = 1

\* C3: Init returns ErrNoURL whenever the bootstrap response has an empty API
\* URL, with or without a ticket in it, and then hasTicket, ticket and the base
\* URL keep the values they had before the call.
C3_InitNoURL ==
    [][(out'.op = "Init" /\ out'.resp # Nil /\ Val(out'.resp).ApiUrl = "") =>
          /\ out'.err = ErrNoURL
          /\ hasTicket' = hasTicket
          /\ ticket' = ticket
          /\ url' = url]_vars

\* An Init whose response has a ticket and no API URL.
C3_Witness ==
    /\ out.op = "Init"
    /\ out.resp # Nil
    /\ Val(out.resp).ApiUrl = ""
    /\ Val(out.resp).AuthTicket # Nil
    /\ out.err = ErrNoURL
    /\ ~hasTicket

\* C4: when Announce's exchange succeeds, the map objects decode and the
\* challenge sub-response decodes to ShowChallenge = true, Announce returns the
\* decoded map objects with a nil error whatever the status code, and the base
\* URL becomes https://<ApiUrl>/rpc when the challenge URL contains the rotation
\* marker and stays as it was when it does not.
C4_AnnounceChallenge ==
    [][(/\ out'.op = "Announce"
        /\ out'.resp # Nil
        /\ Len(Val(out'.resp).Returns) >= 6
        /\ Val(out'.resp).Returns[6].wf
        /\ Val(out'.resp).Returns[1].f1) =>
          LET r == Val(out'.resp)
          IN  /\ ~out'.panic
              /\ out'.err = NoError
              /\ out'.ret = Ptr([Type |-> "GetMapObjectsResponse",
                                 Field1 |-> r.Returns[6].f1, Field2 |-> r.Returns[6].f2])
              /\ IF Contains(r.Returns[1].f2, RotationMarker)
                 THEN url' = "https://" \o r.ApiUrl \o "/rpc"
                 ELSE url' = url]_vars

\* A shown challenge with the marker, under a failure status: the URL is the
\* response's and no error is returned.
C4_Witness ==
    /\ out.op = "Announce"
    /\ out.resp # Nil
    /\ Len(Val(out.resp).Returns) >= 6
    /\ Val(out.resp).Returns[1].f1
    /\ Contains(Val(out.resp).Returns[1].f2, RotationMarker)
    /\ Val(out.resp).StatusCode = "fatal"
    /\ Val(out.resp).ApiUrl = "a.example"
    /\ out.ret # Nil
    /\ out.err = NoError
    /\ url = "https://a.example/rpc"

\* The operations that decode one sub-response and classify the status code.
DecodingOps == {"GetPlayer", "GetInventory", "Encounter", "CheckChallenge", "SolveCaptcha"}

ResponseType(op) ==
    CASE op = "GetPlayer" -> "GetPlayerResponse"
      [] op = "GetInventory" -> "GetInventoryResponse"
      [] op = "Encounter" -> "EncounterResponse"
      [] op = "CheckChallenge" -> "CheckChallengeResponse"
      [] op = "SolveCaptcha" -> "VerifyChallengeResponse"
      [] OTHER -> "GetMapObjectsResponse"

\* C5: when the exchange succeeds and the declared sub-response decodes, each
\* of GetPlayer, GetInventory, Encounter, CheckChallenge, SolveCaptcha, and
\* Announce with ShowChallenge = false, returns the decoded payload and the
\* classification of the response's status code, which is nil for the success
\* code.
C5_StatusClassified ==
    (out.op \in DecodingOps \cup {"Announce"} /\ out.resp # Nil) =>
        LET r == Val(out.resp)
            i == IF out.op = "Announce" THEN 6 ELSE 1
        IN  (/\ Len(r.Returns) >= i
             /\ r.Returns[i].wf
             /\ out.op = "Announce" => ~r.Returns[1].f1) =>
                /\ ~out.panic
                /\ out.ret = Ptr([Type |-> ResponseType(out.op),
                                  Field1 |-> r.Returns[i].f1, Field2 |-> r.Returns[i].f2])
                /\ out.err = GetErrorFromStatus(r.StatusCode)
                /\ r.StatusCode = "success" => out.err = NoError

\* GetInventory returning its payload with the error of a failure status.
C5_Witness ==
    /\ out.op = "GetInventory"
    /\ out.resp # Nil
    /\ Val(out.resp).StatusCode = "recoverable"
    /\ out.ret # Nil
    /\ out.err = GetErrorFromStatus("recoverable")
    /\ out.err # NoError

\* C6: in every operation that makes a Call, a proxy-dead failure of the
\* transport is returned as ErrProxyDead, and any other failure of the
\* transport as an error that is not ErrProxyDead.
C6_ProxyDeadDistinct ==
    (out.op \in CallOps /\ out.env # Nil) =>
        /\ out.terr = ErrProxyDead => (~out.panic /\ out.err = ErrProxyDead)
        /\ out.terr \notin {NoError, ErrProxyDead} =>
              (~out.panic /\ out.err \notin {NoError, ErrProxyDead})

\* Announce over a dead proxy.
C6_Witness ==
    /\ out.op = "Announce"
    /\ out.env # Nil
    /\ out.terr = ErrProxyDead
    /\ out.err = ErrProxyDead

\* C7: MoveTo(L) makes no exchange and changes the location alone, to L; no
\* other step changes the location; and every envelope handed to the transport
\* has the latitude, longitude and accuracy, and its signature the location
\* hashes, of the location the session has when the call starts.  So the first
\* call after MoveTo(L) is built from L.
C7_MoveTo ==
    [][/\ out'.op = "MoveTo" =>
            /\ location' = Val(out'.arg)
            /\ out'.env = Nil
            /\ UNCHANGED <<url, hasTicket, ticket, started, hash, providerToken>>
       /\ out'.op # "MoveTo" => location' = location
       /\ out'.env # Nil =>
            /\ Val(out'.env).Latitude = location.Lat
            /\ Val(out'.env).Longitude = location.Lon
            /\ Val(out'.env).Accuracy = location.Accuracy
            /\ out'.sig # Nil =>
                 /\ Val(out'.sig).LocationHash1 =
                        HashLocation1(Marshal(ticket), location.Lat, location.Lon, location.Alt)
                 /\ Val(out'.sig).LocationHash2 =
                        HashLocation2(location.Lat, location.Lon, location.Alt)]_vars

\* A signed call made from the place the session was moved to.
C7_Witness ==
    /\ out.op = "Call"
    /\ out.env # Nil
    /\ out.sig # Nil
    /\ location = Place(1)
    /\ Val(out.env).Latitude = Place(1).Lat
    /\ Val(out.env).Longitude = Place(1).Lon

\* C8: in every reachable state, hasTicket implies that the ticket is not nil.
C8_TicketNotNil == hasTicket => ticket # Nil

\* C9: whenever the response to a call (of Init, Call, Announce, GetPlayer,
\* GetInventory, Encounter, CheckChallenge or SolveCaptcha) carries a ticket,
\* that ticket is the session's ticket when the operation returns.  (An Init
\* that ends with ErrNoURL is left aside: C3 says it stores nothing.)
C9_TicketReplacedOnAnyCall ==
    (/\ out.op \in CallOps
     /\ out.resp # Nil
     /\ Val(out.resp).AuthTicket # Nil
     /\ out.err # ErrNoURL) =>
        (hasTicket /\ ticket = Val(out.resp).AuthTicket)

\* C10: whenever the response to a call of any operation has a non-empty API
\* URL, the base URL is https://<ApiUrl>/rpc when the operation returns.
C10_UrlAdoptedOnAnyCall ==
    (/\ out.op \in CallOps
     /\ out.resp # Nil
     /\ Val(out.resp).ApiUrl # "") =>
        url = "https://" \o Val(out.resp).ApiUrl \o "/rpc"

\* C11: hasTicket goes from false to true only in a step of Init that returns
\* no error, and no step takes it from true to false: not a failed call, not
\* an operation on an expired ticket, not another Init.
C11_AuthenticatedOnlyByInit ==
    [][/\ (~hasTicket /\ hasTicket') => (out'.op = "Init" /\ out'.err = NoError)
       /\ hasTicket => hasTicket']_vars

\* A call that fails on a session whose ticket has expired; the session is
\* still authenticated.
C11_Witness ==
    /\ out.op = "GetPlayer"
    /\ out.terr = ErrTransport
    /\ out.err # NoError
    /\ ticket # Nil
    /\ IsExpired(Sess)
    /\ hasTicket

\* C12: an Init on a session that an earlier Init has authenticated, when it
\* returns no error, has logged in again (the provider holds a token of this
\* login), has filled the session hash from the random source, has set the
\* session start time to the time of this Init, and has stored the ticket of
\* the new bootstrap response.
C12_ReInitResetsSession ==
    [][(hasTicket /\ out'.op = "Init" /\ out'.err = NoError) =>
          /\ providerToken' \in Tokens
          /\ hash' \in Hashes
          /\ started' = now'
          /\ ticket' = Val(out'.resp).AuthTicket]_vars

\* C13: when the exchange of an operation (the bootstrap call of Init
\* included) ends with a failure of the transport or with a cancellation,
\* ticket, hasTicket, base URL, session hash, start time and location are
\* after the operation what they were before it.
C13_TransportFailureKeepsSession ==
    [][(out'.op \in CallOps /\ out'.terr \in TransportErrors) =>
          UNCHANGED <<ticket, hasTicket, url, hash, started, location>>]_vars

\* C14: for every call made by a session that has a ticket, with n >= 0
\* sub-requests, the request hashes of the signature are n in number and the
\* i-th is the signer's hash of the serialized ticket and the serialized i-th
\* sub-request.
C14_RequestHashes ==
    [][(hasTicket /\ out'.env # Nil) =>
          /\ out'.sig # Nil
          /\ LET requests == Val(out'.env).Requests
                 hashes == Val(out'.sig).RequestHash
             IN  /\ Len(hashes) = Len(requests)
                 /\ \A i \in 1..Len(requests) :
                        hashes[i] = HashRequest(Marshal(ticket), Marshal(requests[i]))]_vars

\* A signed call with three different sub-requests and their three hashes.
C14_Witness ==
    /\ out.op = "Call"
    /\ out.sig # Nil
    /\ ticket # Nil
    /\ Len(Val(out.env).Requests) = 3
    /\ Len(Val(out.sig).RequestHash) = 3
    /\ Val(out.sig).RequestHash[3] =
           HashRequest(Marshal(ticket), Marshal(Request("CHECK_CHALLENGE", Nil)))

\* C15: whenever the response's sequence of sub-responses is shorter than the
\* highest index the operation decodes needs (index 5 for Announce, index 0 for
\* the operations with one sub-request), the operation returns an error to its
\* caller and does not end in an out-of-range panic.
C15_ShortReturnsIsAnError ==
    (/\ out.op \in DecodingOps \cup {"Announce"}
     /\ out.resp # Nil
     /\ Len(Val(out.resp).Returns) < (IF out.op = "Announce" THEN 6 ELSE 1)) =>
        (~out.panic /\ out.err # NoError)

\* The position in requests of the sub-request of a type.
Position(requests, type) ==
    CHOOSE i \in 1..Len(requests) : requests[i].RequestType = type

\* C16: a result is decoded from the sub-response at the position of its
\* sub-request in the envelope sent.  For Announce answered with one
\* sub-response per sub-request: the payload returned is the decoding of the
\* sub-response at the position of GET_MAP_OBJECTS, and whether a challenge is
\* shown (no error is returned then, and the status code is classified
\* otherwise) is read from the sub-response at the position of CHECK_CHALLENGE.
C16_AnnounceDecodesAtRequestPositions ==
    (/\ out.op = "Announce"
     /\ out.resp # Nil
     /\ Len(Val(out.resp).Returns) = Len(Val(out.env).Requests)) =>
        LET r == Val(out.resp)
            requests == Val(out.env).Requests
            objects == Unmarshal(r.Returns[Position(requests, "GET_MAP_OBJECTS")],
                                 "GetMapObjectsResponse")
            challenge == Unmarshal(r.Returns[Position(requests, "CHECK_CHALLENGE")],
                                   "CheckChallengeResponse")
        IN  objects.err = NoError =>
                /\ out.ret = Ptr(objects.msg)
                /\ out.err = IF ShowChallenge(challenge.msg)
                             THEN NoError
                             ELSE GetErrorFromStatus(r.StatusCode)

\* C17: when proto.Marshal fails at a step of Call (the ticket, a sub-request,
\* the signature or the encrypted-signature message), the operation that made
\* the call returns ErrFormatting, and nothing is handed to the transport.
C17_MarshalFailureIsErrFormatting ==
    (out.op \in CallOps /\ out.mfail # "none") =>
        (out.err = ErrFormatting /\ out.env = Nil)

\* C18: every payload an operation decodes without error from a response is
\* among the payloads pushed to the feed when the operation returns (the
\* CheckChallengeResponse Announce decodes included), and an operation pushes
\* nothing for a payload whose exchange or decoding failed.
C18_DecodedPayloadsPushed ==
    /\ (out.op \in DecodingOps /\ out.resp # Nil /\ Len(Val(out.resp).Returns) >= 1) =>
          LET d == Unmarshal(Val(out.resp).Returns[1], ResponseType(out.op))
          IN  out.pushed = IF d.err = NoError THEN <<d.msg>> ELSE <<>>
    /\ (out.op \in CallOps /\ out.resp = Nil) => out.pushed = <<>>
    /\ (out.op = "Announce" /\ out.resp # Nil /\ Len(Val(out.resp).Returns) >= 6) =>
          LET objects == Unmarshal(Val(out.resp).Returns[6], "GetMapObjectsResponse")
              challenge == Unmarshal(Val(out.resp).Returns[1], "CheckChallengeResponse")
          IN  IF objects.err # NoError
              THEN out.pushed = <<>>
              ELSE /\ \E i \in 1..Len(out.pushed) : out.pushed[i] = objects.msg
                   /\ challenge.err = NoError =>
                         \E i \in 1..Len(out.pushed) : out.pushed[i] = challenge.msg

\* C19: in every reachable state the base URL is empty, or it is
\* https://<token>/rpc for a non-empty API URL of a response.
C19_UrlWellFormed ==
    \/ url = ""
    \/ \E au \in ApiUrls \ {""} : url = "https://" \o au \o "/rpc"

\* C20: the envelope of the bootstrap call of Init carries auth-info with the
\* token the provider holds after the login of this Init, no ticket and no
\* signature (no platform request), also when the session already holds a
\* ticket from an earlier Init.
C20_BootstrapUsesAuthInfo ==
    (out.op = "Init" /\ out.env # Nil) =>
        LET e == Val(out.env)
        IN  /\ e.AuthInfo # Nil
            /\ Val(e.AuthInfo).Token.Contents = providerToken
            /\ e.AuthTicket = Nil
            /\ e.PlatformRequests = <<>>
            /\ out.sig = Nil

====
